---- MODULE Spec2Model ----
(***************************************************************************)
(* address_watcher.py: AddressWatcher polls the Etherscan "tokentx" API    *)
(* for the latest ERC20 transfer of every address of addrs.txt, compares   *)
(* its hash with the one recorded in latest_txs.txt, prints what changed   *)
(* and rewrites latest_txs.txt.                                            *)
(*                                                                         *)
(* Files are modelled at the lexical level: latest_txs.txt is a sequence   *)
(* of JSON tokens (whitespace, which json ignores, is left out), addrs.txt *)
(* a sequence of lines.  Python values are tagged records, so that values  *)
(* of different Python types can be compared.                              *)
(***************************************************************************)
EXTENDS Integers, Sequences, FiniteSets

VARIABLES
    addrsFile,     \* addrs.txt: [exists, texts, finalNl]
    store,         \* latest_txs.txt: [exists, toks]
    chain,         \* Etherscan's side: address -> its ERC20 transfers, oldest first
    pc,            \* position of the process inside run()
    addresses,     \* self.addresses
    idx,           \* position of the for loop of get_erc20_txs in self.addresses
    history,       \* self.history
    printed,       \* lines printed by this process, in order
    reqs,          \* requests issued by this process, in order
    resps,         \* what each of those requests answered
    storeAtStart,  \* latest_txs.txt as it was when this process started
    firstRun,      \* the run of get_erc20_txs before this one, against fixed answers
    fargs,         \* arguments of a direct call of _get_erc20_txs
    fout,          \* outcome of that call
    answers        \* how Etherscan answers: as it pleases, or one way per address

vars == <<addrsFile, store, chain, pc, addresses, idx, history, printed, reqs,
          resps, storeAtStart, firstRun, fargs, fout, answers>>

----------------------------------------------------------------------------
(* Bounds of the model *)

\* addrs.txt holds at most this many lines
MaxLines == 2

\* The address texts a line of addrs.txt may hold ("" is a blank line)
FileTexts == {"0xabc", "0xABC", ""}

\* The addresses Etherscan knows transfers of
ChainAddrs == {"0xabc", "0xABC"}

\* Transaction hashes, in the order the chain produces them
TransferHashes == <<"hashA", "hashB">>
Hashes == {TransferHashes[i] : i \in 1..Len(TransferHashes)}

----------------------------------------------------------------------------
(* Python values *)

PyNone == [t |-> "none", s |-> "", n |-> 0, m |-> <<>>]
PyStr(x) == [t |-> "str", s |-> x, n |-> 0, m |-> <<>>]
PyInt(i) == [t |-> "int", s |-> "", n |-> i, m |-> <<>>]
\* float('nan'), which json reads the literal NaN as
PyNaN == [t |-> "nan", s |-> "", n |-> 0, m |-> <<>>]
\* a dict is its items <<key, value>> in insertion order, keys distinct
PyDict(items) == [t |-> "dict", s |-> "", n |-> 0, m |-> items]

\* bool(v), as used by `not v`
Truthy(v) ==
    CASE v.t = "none" -> FALSE
      [] v.t = "str" -> v.s # ""
      [] v.t = "int" -> v.n # 0
      [] v.t = "dict" -> v.m # <<>>
      [] v.t = "nan" -> TRUE

\* x != y: nan differs from every value, itself included
ne(x, y) == x.t = "nan" \/ y.t = "nan" \/ x # y

IsDict(v) == v.t = "dict"

DictKeys(items) == {items[i][1] : i \in 1..Len(items)}

DictHas(items, k) == k \in DictKeys(items)

\* dict.get(k): the value, or None
DictGet(items, k) ==
    IF DictHas(items, k)
    THEN items[CHOOSE i \in 1..Len(items) : items[i][1] = k][2]
    ELSE PyNone

\* d[k] = v: an existing key keeps its position, a new key goes last
DictSet(items, k, v) ==
    IF DictHas(items, k)
    THEN [i \in 1..Len(items) |-> IF items[i][1] = k THEN <<k, v>> ELSE items[i]]
    ELSE Append(items, <<k, v>>)

\* d.pop(k) of a key that is present
DictPop(items, k) == SelectSeq(items, LAMBDA it : it[1] # k)

----------------------------------------------------------------------------
(* json: latest_txs.txt as a sequence of tokens.  "{", "}", ":" and ","   *)
(* are the punctuation, "null" and "NaN" are the literals null and NaN;   *)
(* every other token is a JSON string literal.                            *)

Punct == {"{", "}", ":", ","}
IsStrTok(tok) == tok \notin Punct \cup {"null", "NaN"}

RECURSIVE json_dumps(_), dumps_items(_)
\* json.dumps(v, indent=4) for None, nan, strings and dicts of them
json_dumps(v) ==
    IF v.t = "dict"
    THEN <<"{">> \o dumps_items(v.m) \o <<"}">>
    ELSE IF v.t = "none" THEN <<"null">>
    ELSE IF v.t = "nan" THEN <<"NaN">>
    ELSE <<v.s>>
dumps_items(items) ==
    IF items = <<>> THEN <<>>
    ELSE <<items[1][1], ":">> \o json_dumps(items[1][2])
         \o (IF Len(items) > 1 THEN <<",">> \o dumps_items(Tail(items)) ELSE <<>>)

JSONDecodeError == [ok |-> FALSE, val |-> PyNone, next |-> 0]

RECURSIVE parse_value(_, _), parse_members(_, _, _)
\* the JSON value that starts at toks[i], and the position after it
parse_value(toks, i) ==
    IF i > Len(toks) THEN JSONDecodeError
    ELSE IF toks[i] = "null" THEN [ok |-> TRUE, val |-> PyNone, next |-> i + 1]
    ELSE IF toks[i] = "NaN" THEN [ok |-> TRUE, val |-> PyNaN, next |-> i + 1]
    ELSE IF IsStrTok(toks[i]) THEN [ok |-> TRUE, val |-> PyStr(toks[i]), next |-> i + 1]
    ELSE IF toks[i] = "{"
         THEN IF i + 1 <= Len(toks) /\ toks[i + 1] = "}"
              THEN [ok |-> TRUE, val |-> PyDict(<<>>), next |-> i + 2]
              ELSE parse_members(toks, i + 1, <<>>)
         ELSE JSONDecodeError
\* the members of an object from the key at toks[i] on; a repeated key keeps
\* its last value
parse_members(toks, i, acc) ==
    IF i + 1 > Len(toks) \/ ~IsStrTok(toks[i]) \/ toks[i + 1] # ":"
    THEN JSONDecodeError
    ELSE LET v == parse_value(toks, i + 2) IN
         IF ~v.ok \/ v.next > Len(toks) THEN JSONDecodeError
         ELSE LET acc2 == DictSet(acc, toks[i], v.val) IN
              IF toks[v.next] = "}"
              THEN [ok |-> TRUE, val |-> PyDict(acc2), next |-> v.next + 1]
              ELSE IF toks[v.next] = ","
                   THEN parse_members(toks, v.next + 1, acc2)
                   ELSE JSONDecodeError

\* json.load(f): the whole text is one value, or JSONDecodeError
json_load(toks) ==
    LET r == parse_value(toks, 1) IN
    IF r.ok /\ r.next = Len(toks) + 1 THEN r ELSE JSONDecodeError

\* AddressWatcher.load_history: the value self.history gets
load_history(st) ==
    IF st.exists
    THEN LET r == json_load(st.toks) IN
         IF r.ok THEN r.val ELSE PyDict(<<>>)
    ELSE PyDict(<<>>)

to_file_append(st, h) == [exists |-> TRUE, toks |-> st.toks \o json_dumps(h)]
\* AddressWatcher.to_file: latest_txs.txt after open(.., 'w') and f.write
to_file(st, h) == [exists |-> TRUE, toks |-> json_dumps(h)]

----------------------------------------------------------------------------
(* _get_erc20_txs and the request it issues *)

\* page: int = 1
DefaultPage == 1
\* offset: int = 10000
DefaultOffset == 10000
\* get_erc20_txs asks for offset=1
LatestOnly == 1

ApiKey == PyStr("<YOUR_API_KEY>")

\* the params dict as first built: 'contractaddress' is given `address`
initial_params(contract_address, address, start_block, end_block, page, offset, sort) ==
    << <<"module", PyStr("account")>>,
       <<"action", PyStr("tokentx")>>,
       <<"contractaddress", address>>,
       <<"address", address>>,
       <<"startblock", start_block>>,
       <<"endblock", end_block>>,
       <<"page", page>>,
       <<"offset", offset>>,
       <<"sort", sort>>,
       <<"apikey", ApiKey>> >>

PopUnless(items, cond, k) == IF cond THEN items ELSE DictPop(items, k)

\* _get_erc20_txs up to requests.get: ValueError, or the params passed on
_get_erc20_txs(contract_address, address, start_block, end_block, page, offset, sort) ==
    LET p0 == initial_params(contract_address, address, start_block, end_block,
                             page, offset, sort)
        p1 == PopUnless(p0, Truthy(contract_address), "contractaddress")
        p2 == PopUnless(p1, Truthy(address), "address")
        p3 == PopUnless(p2, Truthy(start_block), "startblock")
        p4 == PopUnless(p3, Truthy(end_block), "endblock")
    IN  IF ~Truthy(contract_address) /\ ~Truthy(address)
        THEN [raised |-> TRUE, params |-> <<>>]
        ELSE [raised |-> FALSE, params |-> p4]

\* requests.get(url, params=params): a parameter whose value is None is
\* not put in the query string
requests_get(params) == SelectSeq(params, LAMBDA it : it[2].t # "none")

----------------------------------------------------------------------------
(* Etherscan: the answer to a query *)

Reverse(sq) == [i \in 1..Len(sq) |-> sq[Len(sq) + 1 - i]]

Min(a, b) == IF a < b THEN a ELSE b

\* the "result" list of a tokentx query: the transfers of the address,
\* sorted as asked, cut to the page asked for
tokentx(ch, query) ==
    LET a == DictGet(query, "address")
        txs == IF a.t = "str" /\ a.s \in DOMAIN ch THEN ch[a.s] ELSE <<>>
        sorted == IF DictGet(query, "sort") = PyStr("desc") THEN Reverse(txs) ELSE txs
        page == DictGet(query, "page").n
        offset == DictGet(query, "offset").n
        slice == SubSeq(sorted, (page - 1) * offset + 1, Min(page * offset, Len(sorted)))
    IN  [i \in 1..Len(slice) |-> [hash |-> PyStr(slice[i])]]

\* The ways a request may come back: requests.get or r.json() raises; the
\* "result" is an error message of the API; the "result" is the empty
\* string; the "result" is the list of transfers; it is that list with
\* "hash": null, or with "hash": NaN, in its records.
AnswerKinds ==
    {"raise", "message", "empty_message", "transfers", "null_hash", "nan_hash"}

Answer(kind, ch, query) ==
    CASE kind = "raise" -> [kind |-> "raise", text |-> "", result |-> <<>>]
      [] kind = "message" ->
            [kind |-> "str", text |-> "Max rate limit reached", result |-> <<>>]
      [] kind = "empty_message" -> [kind |-> "str", text |-> "", result |-> <<>>]
      [] kind = "transfers" ->
            [kind |-> "list", text |-> "", result |-> tokentx(ch, query)]
      [] kind = "null_hash" ->
            [kind |-> "list", text |-> "",
             result |-> [i \in 1..Len(tokentx(ch, query)) |-> [hash |-> PyNone]]]
      [] kind = "nan_hash" ->
            [kind |-> "list", text |-> "",
             result |-> [i \in 1..Len(tokentx(ch, query)) |-> [hash |-> PyNaN]]]

\* What the request for address a may come back with
Responses(ans, a, ch, query) ==
    {Answer(k, ch, query) : k \in IF ans.fixed THEN {ans.kind[a]} ELSE AnswerKinds}

----------------------------------------------------------------------------
(* get_erc20_txs: one iteration of its loop *)

\* {t_hash} in the f-string
format(v) ==
    IF v.t = "none" THEN "None" ELSE IF v.t = "nan" THEN "nan" ELSE v.s

NewTransaction(a, h) == [kind |-> "New transaction", address |-> a, hash |-> h]
NoTransactions(a) == [kind |-> "No transactions", address |-> a, hash |-> ""]

\* an exception that is not an IndexError leaves the loop and the method
propagate_swallowed(h) == [raised |-> FALSE, history |-> h, out |-> <<>>]
propagate(h) == [raised |-> TRUE, history |-> h, out |-> <<>>]

\* except IndexError: print, continue
except_IndexError_reraised(a, h) == [raised |-> TRUE, history |-> h, out |-> <<>>]
except_IndexError(a, h) ==
    [raised |-> FALSE, history |-> h, out |-> <<NoTransactions(a)>>]

record_without_notice(a, h, t_hash) ==
    IF ne(DictGet(h.m, a), t_hash)
    THEN [raised |-> FALSE, history |-> PyDict(DictSet(h.m, a, t_hash)), out |-> <<>>]
    ELSE [raised |-> FALSE, history |-> h, out |-> <<>>]
notify_without_record(a, h, t_hash) ==
    IF ne(DictGet(h.m, a), t_hash)
    THEN [raised |-> FALSE, history |-> h, out |-> <<NewTransaction(a, format(t_hash))>>]
    ELSE [raised |-> FALSE, history |-> h, out |-> <<>>]
record_only_latest(a, h, t_hash) ==
    IF ne(DictGet(h.m, a), t_hash)
    THEN [raised |-> FALSE,
          history |-> PyDict(<< <<a, t_hash>> >>),
          out |-> <<NewTransaction(a, format(t_hash))>>]
    ELSE [raised |-> FALSE, history |-> h, out |-> <<>>]
\* if self.history.get(a) != t_hash: print, self.history[a] = t_hash
\* (self.history being the dict h)
notify_and_record(a, h, t_hash) ==
    IF ne(DictGet(h.m, a), t_hash)
    THEN [raised |-> FALSE,
          history |-> PyDict(DictSet(h.m, a, t_hash)),
          out |-> <<NewTransaction(a, format(t_hash))>>]
    ELSE [raised |-> FALSE, history |-> h, out |-> <<>>]

\* The try block for address a with self.history = h, the request having
\* come back with resp: whether an exception leaves the loop, the new
\* self.history and the lines printed.
get_erc20_txs_body(a, h, resp) ==
    IF resp.kind = "raise"
    THEN \* requests.get / r.json() raised
         propagate(h)
    ELSE IF resp.kind = "str"
    THEN IF resp.text = ""
         THEN \* ['result'][0] is an IndexError
              except_IndexError(a, h)
         ELSE \* ['result'][0] is a character, data['hash'] is a TypeError
              propagate(h)
    ELSE IF resp.result = <<>>
    THEN \* ['result'][0] is an IndexError
         except_IndexError(a, h)
    ELSE LET t_hash == resp.result[1].hash IN
         IF ~IsDict(h)
         THEN \* self.history.get is an AttributeError
              propagate(h)
         ELSE notify_and_record(a, h, t_hash)

\* the call get_erc20_txs makes for address a
latest_call(a) ==
    _get_erc20_txs(PyNone, PyStr(a), PyNone, PyNone,
                   PyInt(DefaultPage), PyInt(LatestOnly), PyStr("desc"))

----------------------------------------------------------------------------
(* run(): reading addrs.txt *)

\* f.readlines(): every line but perhaps the last ends with a newline
readlines(f) ==
    [i \in 1..Len(f.texts) |->
        [text |-> f.texts[i], nl |-> (i < Len(f.texts)) \/ f.finalNl]]

\* a.strip('\n')
strip_nl(line) == line.text

\* set([a.strip('\n') for a in lines])
stripped_set(lines) == {strip_nl(lines[i]) : i \in 1..Len(lines)}

\* list(set(..)): the members, each once, in an order the set decides
list_of_set(S) ==
    {f \in [1..Cardinality(S) -> S] :
        \A i, j \in 1..Cardinality(S) : i # j => f[i] # f[j]}

read_addrs_no_dedup(f) ==
    {[i \in 1..Len(readlines(f)) |-> strip_nl(readlines(f)[i])]}
\* addrs = list(set([a.strip('\n') for a in f.readlines()])): the lists it
\* may be
read_addrs(f) == list_of_set(stripped_set(readlines(f)))

----------------------------------------------------------------------------
(* Initial states *)

RECURSIVE SeqsUpTo(_, _)
SeqsUpTo(S, n) ==
    IF n = 0 THEN {<<>>}
    ELSE LET shorter == SeqsUpTo(S, n - 1) IN
         shorter \cup {Append(sq, x) : sq \in shorter, x \in S}

AddrsFiles ==
    {[exists |-> FALSE, texts |-> <<>>, finalNl |-> TRUE]}
    \cup {[exists |-> TRUE, texts |-> tx, finalNl |-> nl] :
            tx \in SeqsUpTo(FileTexts, MaxLines), nl \in BOOLEAN}

\* a last line without its newline is not empty
WellFormedFile(f) ==
    f.exists /\ ~f.finalNl => Len(f.texts) > 0 /\ f.texts[Len(f.texts)] # ""

\* dicts address -> hash, in every insertion order
FlatDicts ==
    {PyDict([i \in 1..Len(ks) |-> <<ks[i], PyStr(hs[i])>>]) :
        ks \in UNION {list_of_set(K) : K \in SUBSET ChainAddrs},
        hs \in [1..Cardinality(ChainAddrs) -> Hashes]}

\* texts of latest_txs.txt that no run of the program wrote
OtherTexts ==
    { <<>>,
      <<"{">>,
      <<"hashA">>,
      <<"null">>,
      <<"{", "0xabc", ":", "NaN", "}">>,
      <<"{", "0xabc", ":", "hashA", ",", "}">>,
      <<"{", "0xabc", ":", "hashA", "}", "}">>,
      <<"{", "0xabc", ":", "hashA", ",", "0xabc", ":", "hashB", "}">>,
      <<"{", "0xabc", ":", "{", "hashA", ":", "hashB", "}", "}">> }

Stores ==
    {[exists |-> FALSE, toks |-> <<>>]}
    \cup {[exists |-> TRUE, toks |-> tk] :
            tk \in {json_dumps(d) : d \in FlatDicts} \cup OtherTexts}

NoArgs ==
    [contract_address |-> PyNone, address |-> PyNone, start_block |-> PyNone,
     end_block |-> PyNone, page |-> PyInt(DefaultPage),
     offset |-> PyInt(DefaultOffset), sort |-> PyStr("asc")]

NotCalled == [called |-> FALSE, raised |-> FALSE, query |-> <<>>]

\* Etherscan answers each request in any of the ways
AnyAnswer == [fixed |-> FALSE, kind |-> [a \in ChainAddrs |-> "transfers"]]

\* get_erc20_txs has not run before
NoFirstRun == [ran |-> FALSE, returned |-> FALSE, same |-> FALSE, history |-> PyNone]

\* a process that has not started yet
Fresh ==
    /\ pc = "start"
    /\ addresses = <<>>
    /\ idx = 0
    /\ history = PyNone
    /\ printed = <<>>
    /\ reqs = <<>>
    /\ resps = <<>>

Init ==
    /\ addrsFile \in AddrsFiles
    /\ WellFormedFile(addrsFile)
    /\ store \in Stores
    /\ storeAtStart = store
    /\ chain = [a \in ChainAddrs |-> <<>>]
    /\ Fresh
    /\ firstRun = NoFirstRun
    /\ fargs = NoArgs
    /\ fout = NotCalled
    /\ answers = AnyAnswer

----------------------------------------------------------------------------
(* Actions *)

\* run(): addrs.txt is missing
RunMissingAddrs ==
    /\ pc = "start"
    /\ ~addrsFile.exists
    /\ pc' = "failed"
    /\ UNCHANGED <<addrsFile, store, chain, addresses, idx, history, printed,
                   reqs, resps, storeAtStart, firstRun, fargs, fout, answers>>

\* run(): read addrs.txt, construct the AddressWatcher (which loads the history)
RunBegin ==
    /\ pc = "start"
    /\ addrsFile.exists
    /\ addresses' \in read_addrs(addrsFile)
    /\ history' = load_history(store)
    /\ idx' = 1
    /\ pc' = "loop"
    /\ UNCHANGED <<addrsFile, store, chain, printed, reqs, resps, storeAtStart,
                   firstRun, fargs, fout, answers>>

\* get_erc20_txs: the iteration for self.addresses[idx]
get_erc20_txs ==
    /\ pc = "loop"
    /\ idx <= Len(addresses)
    /\ LET a == addresses[idx]
           call == latest_call(a)
       IN  IF call.raised
           THEN /\ pc' = "aborted"
                /\ UNCHANGED <<idx, history, printed, reqs, resps>>
           ELSE \E resp \in Responses(answers, a, chain, requests_get(call.params)) :
                  LET r == get_erc20_txs_body(a, history, resp) IN
                  /\ reqs' = Append(reqs, requests_get(call.params))
                  /\ resps' = Append(resps, resp)
                  /\ history' = r.history
                  /\ printed' = printed \o r.out
                  /\ pc' = IF r.raised THEN "aborted" ELSE "loop"
                  /\ idx' = IF r.raised THEN idx ELSE idx + 1
    /\ UNCHANGED <<addrsFile, store, chain, addresses, storeAtStart,
                   firstRun, fargs, fout, answers>>

\* run(): the loop is over, ad.to_file()
ToFile ==
    /\ pc = "loop"
    /\ idx > Len(addresses)
    /\ store' = to_file(store, history)
    /\ pc' = "done"
    /\ UNCHANGED <<addrsFile, chain, addresses, idx, history, printed, reqs,
                   resps, storeAtStart, firstRun, fargs, fout, answers>>

\* the process has exited; cron starts the next one
NextRun ==
    /\ pc \in {"done", "aborted", "failed"}
    /\ pc' = "start"
    /\ addresses' = <<>>
    /\ idx' = 0
    /\ history' = PyNone
    /\ printed' = <<>>
    /\ reqs' = <<>>
    /\ resps' = <<>>
    /\ storeAtStart' = store
    /\ firstRun' = IF answers.fixed /\ pc \in {"done", "aborted"}
                   THEN [ran |-> TRUE, returned |-> pc = "done", same |-> FALSE,
                         history |-> load_history(store)]
                   ELSE NoFirstRun
    /\ UNCHANGED <<addrsFile, store, chain, fargs, fout, answers>>

\* the chain: a new ERC20 transfer of address a, the hashes being handed
\* out in the order of TransferHashes
NewTransfer ==
    \E a \in ChainAddrs :
        /\ Len(chain[a]) < Len(TransferHashes)
        /\ chain' = [chain EXCEPT ![a] = Append(@, TransferHashes[Len(@) + 1])]
        /\ UNCHANGED <<addrsFile, store, pc, addresses, idx, history, printed,
                       reqs, resps, storeAtStart, firstRun, fargs, fout, answers>>

Next ==
    \/ RunMissingAddrs
    \/ RunBegin
    \/ get_erc20_txs
    \/ ToFile
    \/ NextRun
    \/ NewTransfer

Spec == Init /\ [][Next]_vars

----------------------------------------------------------------------------
(* Runs one after the other, on one AddressWatcher or in successive       *)
(* processes, against an API whose answers are fixed: no transfer is      *)
(* added, and every address is answered the same way each time it is      *)
(* asked for.                                                             *)

InitTwice ==
    /\ addrsFile \in AddrsFiles
    /\ WellFormedFile(addrsFile)
    /\ store \in Stores
    /\ storeAtStart = store
    /\ chain \in [ChainAddrs -> {SubSeq(TransferHashes, 1, n) : n \in 0..Len(TransferHashes)}]
    /\ Fresh
    /\ firstRun = NoFirstRun
    /\ fargs = NoArgs
    /\ fout = NotCalled
    /\ answers \in [fixed : {TRUE}, kind : [ChainAddrs -> AnswerKinds]]

\* get_erc20_txs has returned or raised, and is called again on the same
\* AddressWatcher
CallAgain ==
    /\ \/ pc = "loop" /\ idx > Len(addresses)
       \/ pc = "aborted"
    /\ firstRun' = [ran |-> TRUE, returned |-> pc = "loop", same |-> TRUE,
                    history |-> history]
    /\ pc' = "loop"
    /\ idx' = 1
    /\ printed' = <<>>
    /\ reqs' = <<>>
    /\ resps' = <<>>
    /\ UNCHANGED <<addrsFile, store, chain, addresses, history, storeAtStart,
                   fargs, fout, answers>>

NextTwice ==
    \/ RunMissingAddrs
    \/ RunBegin
    \/ get_erc20_txs
    \/ ToFile
    \/ NextRun
    \/ CallAgain

SpecTwice == InitTwice /\ [][NextTwice]_vars

----------------------------------------------------------------------------
(* Direct calls of _get_erc20_txs *)

FetchArgs ==
    [contract_address : {PyNone, PyStr(""), PyStr("0xc0")},
     address : {PyNone, PyStr(""), PyStr("0xabc")},
     start_block : {PyNone, PyInt(0), PyInt(5)},
     end_block : {PyNone, PyInt(0), PyInt(9)},
     page : {PyInt(DefaultPage)},
     offset : {PyInt(LatestOnly), PyInt(DefaultOffset)},
     sort : {PyStr("asc"), PyStr("desc")}]

InitFetch ==
    /\ addrsFile = [exists |-> FALSE, texts |-> <<>>, finalNl |-> TRUE]
    /\ store = [exists |-> FALSE, toks |-> <<>>]
    /\ storeAtStart = store
    /\ chain = [a \in ChainAddrs |-> <<>>]
    /\ Fresh
    /\ firstRun = NoFirstRun
    /\ fargs \in FetchArgs
    /\ fout = NotCalled
    /\ answers = AnyAnswer

\* _get_erc20_txs(**fargs): ValueError, or the query of the request issued
FetchCall ==
    /\ ~fout.called
    /\ LET call == _get_erc20_txs(fargs.contract_address, fargs.address,
                                  fargs.start_block, fargs.end_block,
                                  fargs.page, fargs.offset, fargs.sort)
       IN  fout' = [called |-> TRUE, raised |-> call.raised,
                    query |-> requests_get(call.params)]
    /\ UNCHANGED <<addrsFile, store, chain, pc, addresses, idx, history, printed,
                   reqs, resps, storeAtStart, firstRun, fargs, answers>>

NextFetch == FetchCall

SpecFetch == InitFetch /\ [][NextFetch]_vars

----------------------------------------------------------------------------
(* Vocabulary of the properties *)

\* self.history as load_history set it when this process started
Loaded == load_history(storeAtStart)

\* the entry of address a in h: whether there is one, and its value
Entry(h, a) ==
    IF IsDict(h) THEN <<DictHas(h.m, a), DictGet(h.m, a)>> ELSE <<FALSE, PyNone>>

\* the entries latest_txs.txt holds, when it holds a JSON object
StoreEntries(st) ==
    IF st.exists /\ json_load(st.toks).ok /\ IsDict(json_load(st.toks).val)
    THEN json_load(st.toks).val.m
    ELSE <<>>

Running == pc \in {"loop", "aborted", "done"}

\* how many of the printed lines are the line ln
Times(ln) == Cardinality({i \in 1..Len(printed) : printed[i] = ln})

\* the "New transaction" lines printed for address a
NewLinesFor(a) ==
    {i \in 1..Len(printed) :
        printed[i].kind = "New transaction" /\ printed[i].address = a}

\* the request j came back with a transfer / with an empty result list
GotTransfer(j) == resps[j].kind = "list" /\ resps[j].result # <<>>
GotNothing(j) == resps[j].kind = "list" /\ resps[j].result = <<>>
GotEmptyString(j) == resps[j].kind = "str" /\ resps[j].text = ""
GotRaise(j) == resps[j].kind = "raise"

\* position of address a in the watch-list
Pos(a) == CHOOSE j \in 1..Len(addresses) : addresses[j] = a

----------------------------------------------------------------------------
(* C1: every address whose request came back with a latest transfer of   *)
(* hash h: if its history entry as loaded was absent or not h, exactly    *)
(* one line "New transaction (address, h)" was printed and its entry is   *)
(* now h; if its entry was h, no such line was printed and its entry is   *)
(* as loaded.                                                             *)
C1_ChangeDetected ==
    Running =>
        \A j \in 1..Len(resps) :
            GotTransfer(j) =>
                LET a == addresses[j]
                    h == resps[j].result[1].hash
                IN  IF Entry(Loaded, a) # <<TRUE, h>>
                    THEN /\ Times(NewTransaction(a, format(h))) = 1
                         /\ Cardinality(NewLinesFor(a)) = 1
                         /\ Entry(history, a) = <<TRUE, h>>
                    ELSE /\ NewLinesFor(a) = {}
                         /\ Entry(history, a) = Entry(Loaded, a)

\* C1, of the runs whose load_history produced a dict and of the transfers
\* whose hash is a string
C1_ChangeDetectedInDict ==
    (Running /\ IsDict(Loaded)) =>
        \A j \in 1..Len(resps) :
            (GotTransfer(j) /\ resps[j].result[1].hash.t = "str") =>
                LET a == addresses[j]
                    h == resps[j].result[1].hash
                IN  IF Entry(Loaded, a) # <<TRUE, h>>
                    THEN /\ Times(NewTransaction(a, format(h))) = 1
                         /\ Cardinality(NewLinesFor(a)) = 1
                         /\ Entry(history, a) = <<TRUE, h>>
                    ELSE /\ NewLinesFor(a) = {}
                         /\ Entry(history, a) = Entry(Loaded, a)

\* C1 in a dict: a completed run in which one address changed (its entry
\* was absent) and another did not.
C1_Witness ==
    /\ pc = "done"
    /\ IsDict(Loaded)
    /\ Len(resps) = 2
    /\ GotTransfer(1) /\ GotTransfer(2)
    /\ \E j, k \in 1..2 :
          /\ ~DictHas(Loaded.m, addresses[j])
          /\ Cardinality(NewLinesFor(addresses[j])) = 1
          /\ DictGet(Loaded.m, addresses[k]) = resps[k].result[1].hash
          /\ NewLinesFor(addresses[k]) = {}

(* C2: against an API whose answers are fixed, whatever they are, a run   *)
(* of get_erc20_txs that follows another one (on the same AddressWatcher, *)
(* or in the next process) prints no "New transaction" line and keeps     *)
(* self.history as the first run left it, so that what it persists is     *)
(* that mapping too.                                                      *)
C2_SecondRunSilent ==
    firstRun.ran =>
        /\ \A i \in 1..Len(printed) : printed[i].kind # "New transaction"
        /\ Running => history = firstRun.history
        /\ pc = "done" => load_history(store) = firstRun.history

\* the answer address a gets each time, when the answers are fixed
FixedAnswer(a) ==
    Answer(answers.kind[a], chain, requests_get(latest_call(a).params))

\* no hash of the fixed answers is NaN: each is equal to itself
HashesSelfEqual ==
    \A a \in ChainAddrs :
        \A i \in 1..Len(FixedAnswer(a).result) :
            ~ne(FixedAnswer(a).result[i].hash, FixedAnswer(a).result[i].hash)

\* C2, of the second runs on the same AddressWatcher and of the processes
\* that follow a completed one, when no hash of the answers is NaN
C2_SecondRunSilentInMemoryOrPersisted ==
    (firstRun.ran /\ (firstRun.same \/ firstRun.returned) /\ HashesSelfEqual)
        => C2_SecondRunSilent

\* A process that follows an aborted one: the change of the first address,
\* printed by the first process and not persisted, is printed again.
C2_ReportedAgain ==
    /\ firstRun.ran /\ ~firstRun.same /\ ~firstRun.returned
    /\ HashesSelfEqual
    /\ pc = "aborted"
    /\ Len(resps) = 2
    /\ GotTransfer(1) /\ GotRaise(2)
    /\ resps[1].result[1].hash.t = "str"
    /\ Cardinality(NewLinesFor(addresses[1])) = 1

(* C3: every address whose request came back with an empty result list    *)
(* has exactly one "No transactions" line and no "New transaction" line,  *)
(* its history entry is as it was loaded, and the loop went on to the     *)
(* next address; a run that completed has asked for every address.        *)
C3_NoTransactionsIsolated ==
    /\ \A j \in 1..Len(resps) :
          GotNothing(j) =>
              /\ Times(NoTransactions(addresses[j])) = 1
              /\ NewLinesFor(addresses[j]) = {}
              /\ Entry(history, addresses[j]) = Entry(Loaded, addresses[j])
              /\ idx > j
              /\ pc = "aborted" => Len(resps) > j \/ addresses[idx] = ""
    /\ pc = "done" => Len(resps) = Len(addresses)

\* P5: A has no transfers, B has a new one: one notice for A, one event for
\* B, B's entry updated, A's still absent.
C3_Witness ==
    /\ pc = "done"
    /\ Len(resps) = 2
    /\ GotNothing(1) /\ GotTransfer(2)
    /\ printed = <<NoTransactions(addresses[1]),
                   NewTransaction(addresses[2], format(resps[2].result[1].hash))>>
    /\ Entry(history, addresses[1]) = <<FALSE, PyNone>>
    /\ Entry(history, addresses[2]) = <<TRUE, resps[2].result[1].hash>>

(* C4: after to_file, latest_txs.txt parses, and a fresh load_history of  *)
(* it yields self.history as it was persisted, whatever the file held     *)
(* before.                                                                *)
C4_RoundTrip ==
    pc = "done" =>
        /\ store.exists
        /\ json_load(store.toks).ok
        /\ load_history(store) = history

\* A two-entry history persisted over a file that did not parse.
C4_Witness ==
    /\ pc = "done"
    /\ IsDict(history) /\ Len(history.m) = 2
    /\ storeAtStart.exists /\ ~json_load(storeAtStart.toks).ok
    /\ storeAtStart.toks # <<>>

(* C5: load_history always leaves a mapping in self.history: empty for an *)
(* absent file, empty for a file that does not parse, and a mapping for   *)
(* every file that parses.                                                *)
C5_LoadYieldsMapping ==
    Running =>
        /\ IsDict(history)
        /\ ~storeAtStart.exists => Loaded = PyDict(<<>>)
        /\ (storeAtStart.exists /\ ~json_load(storeAtStart.toks).ok) =>
               Loaded = PyDict(<<>>)

(* C6: an error raised by the fetch (requests.get or r.json() raises)     *)
(* ends the run there: it is the last request issued, the process is      *)
(* aborted, to_file has not run and latest_txs.txt is as it was when the  *)
(* process started.                                                       *)
C6_ErrorAbortsRun ==
    /\ \A j \in 1..Len(resps) :
          GotRaise(j) =>
              /\ pc = "aborted"
              /\ j = Len(resps) /\ j = Len(reqs) /\ idx = j
              /\ store = storeAtStart
    /\ pc = "aborted" => store = storeAtStart

\* The second request raised after a change of the first address was
\* printed: the change is not in latest_txs.txt.
C6_Witness ==
    /\ pc = "aborted"
    /\ Len(resps) = 2
    /\ GotTransfer(1) /\ GotRaise(2)
    /\ Cardinality(NewLinesFor(addresses[1])) = 1
    /\ DictGet(StoreEntries(store), addresses[1]) # resps[1].result[1].hash

\* the request j came back with a transfer whose hash differs (!=) from
\* the entry the address had when the history was loaded
DetectedChange(j) ==
    /\ j <= Len(resps)
    /\ GotTransfer(j)
    /\ IsDict(Loaded)
    /\ ne(DictGet(Loaded.m, addresses[j]), resps[j].result[1].hash)

(* C7: at every moment of the loop, the lines printed are about addresses *)
(* already asked for, in watch-list order; every address has one "New     *)
(* transaction" line if a change was detected for it and none otherwise,  *)
(* and every address whose history entry changed has one.                 *)
C7_NotifiedInOrder ==
    Running =>
        /\ \A i \in 1..Len(printed) :
              /\ printed[i].address \in {addresses[j] : j \in 1..Len(reqs)}
              /\ \A k \in 1..Len(printed) :
                    i < k => Pos(printed[i].address) < Pos(printed[k].address)
        /\ \A j \in 1..Len(addresses) :
              /\ Cardinality(NewLinesFor(addresses[j])) =
                    IF DetectedChange(j) THEN 1 ELSE 0
              /\ Entry(history, addresses[j]) # Entry(Loaded, addresses[j])
                    => Cardinality(NewLinesFor(addresses[j])) = 1

\* The change of the first address is printed while the second address has
\* not been asked for yet.
C7_Witness ==
    /\ pc = "loop"
    /\ Len(addresses) = 2
    /\ idx = 2
    /\ Len(reqs) = 1
    /\ Len(printed) = 1
    /\ printed[1].kind = "New transaction"
    /\ printed[1].address = addresses[1]

(* C8: after a completed run, every address that had an entry in          *)
(* latest_txs.txt when the run started has one still, and the entry is    *)
(* the same for every address that is not in the watch-list or for which  *)
(* "No transactions" was printed.                                         *)
C8_NeverPruned ==
    pc = "done" =>
        \A a \in DictKeys(StoreEntries(storeAtStart)) :
            /\ DictHas(StoreEntries(store), a)
            /\ (a \notin {addresses[j] : j \in 1..Len(addresses)}
                \/ Times(NoTransactions(a)) = 1)
               => DictGet(StoreEntries(store), a) = DictGet(StoreEntries(storeAtStart), a)

\* A completed run that changed latest_txs.txt, which held an entry of an
\* address that is not watched.
C8_Witness ==
    /\ pc = "done"
    /\ store # storeAtStart
    /\ Len(addresses) = 1
    /\ \E a \in DictKeys(StoreEntries(storeAtStart)) : a # addresses[1]
    /\ Len(StoreEntries(store)) = 2

(* C9: _get_erc20_txs raises when neither contract_address nor address is *)
(* supplied, and every request it issues carries the address or the       *)
(* contract address that the caller supplied.                             *)
C9_FetchIdentified ==
    fout.called =>
        /\ (~Truthy(fargs.contract_address) /\ ~Truthy(fargs.address)) => fout.raised
        /\ ~fout.raised =>
              \/ /\ Truthy(fargs.address)
                 /\ DictGet(fout.query, "address") = fargs.address
              \/ /\ Truthy(fargs.contract_address)
                 /\ DictGet(fout.query, "contractaddress") = fargs.contract_address

(* C10: the watch-list holds every distinct line text of addrs.txt once   *)
(* (texts that differ in case are distinct), requests are issued one      *)
(* after the other, and a run that completes has issued one request per   *)
(* address of the watch-list, in its order, each for offset=1, sort=desc. *)
C10_DedupOneFetchEach ==
    Running =>
        /\ {addresses[j] : j \in 1..Len(addresses)} =
               {addrsFile.texts[i] : i \in 1..Len(addrsFile.texts)}
        /\ \A i, j \in 1..Len(addresses) : i # j => addresses[i] # addresses[j]
        /\ Len(resps) = Len(reqs)
        /\ Len(reqs) <= Len(addresses)
        /\ \A j \in 1..Len(reqs) :
              /\ DictGet(reqs[j], "address") = PyStr(addresses[j])
              /\ DictGet(reqs[j], "offset") = PyInt(1)
              /\ DictGet(reqs[j], "sort") = PyStr("desc")
        /\ pc = "done" => Len(reqs) = Len(addresses)

\* A completed run over an addrs.txt of two equal lines.
C10_Witness ==
    /\ pc = "done"
    /\ Len(addrsFile.texts) = 2
    /\ addrsFile.texts[1] = addrsFile.texts[2]
    /\ Len(addresses) = 1
    /\ Len(reqs) = 1

====
